---- MODULE Spec2Model ----
(***************************************************************************)
(* Model of pages/3_Water_Help.py: a Streamlit page.  The script is run    *)
(* top to bottom after every user interaction; st.session_state.reports    *)
(* and st.session_state.uploader_key survive between runs, and so do the   *)
(* values held by the widgets.  Every user interaction below is followed   *)
(* by one complete run of the script (ScriptRun).                          *)
(*                                                                         *)
(* Assumptions: OPENAI_API_KEY is set (line 10 runs), the CSV header holds *)
(* no column outside the ten required ones, and the timestamp cells of an  *)
(* uploaded CSV are date text, other text or empty.                        *)
(***************************************************************************)
EXTENDS Integers, Sequences, FiniteSets, TLC

\* ------------------------------------------------------------- bounds
MaxReports == 3
MaxRows == 2
MaxTicks == 1
MaxBig == 18

\* -------------------------------------------------- program constants
\* to_period("W"): one week, in minutes
MinutesPerWeek == 10080
\* .tail(12)
TailLen == 12

\* ------------------------------------------------------------- values
\* A Python value held in a report or a DataFrame cell: t is its type, s its
\* text, n the point in time (minutes) of a datetime or of a formatted date.
Val(t, s, n) == [t |-> t, s |-> s, n |-> n]
StrVal(s) == Val("str", s, 0)
IntVal(s) == Val("int", s, 0)
FloatVal(s) == Val("float", s, 0)
BoolVal(b) == Val("bool", IF b THEN "True" ELSE "False", 0)
NaN == Val("nan", "", 0)
None == Val("none", "", 0)
NaT == Val("nat", "", 0)
Timestamp(m) == Val("ts", "", m)

\* strftime("%Y-%m-%d %H:%M") of the time m, and str(Timestamp(m))
FmtMin == "%Y-%m-%d %H:%M"
FmtSec == "%Y-%m-%d %H:%M:%S"
TimeStr(fmt, m) == Val("str", fmt, m)

IsNull(v) == v.t \in {"nan", "none", "nat"}

\* the digit strings and float renderings the model draws zip codes from
DigitStrings == {"10001", "94110"}
FloatText(s) == IF s = "10001" THEN "10001.0" ELSE "94110.0"
FloatStrings == {FloatText(s) : s \in DigitStrings}
DigitsOf(f) == CHOOSE s \in DigitStrings : FloatText(s) = f

\* a record of the DataFrame built from a list of dicts: a missing key is NaN
Field(r, c) == IF c \in DOMAIN r THEN r[c] ELSE NaN

required_columns ==
    {"timestamp", "address", "zipcode", "description", "concerns", "type",
     "used", "symptoms", "alert", "photo_path"}

IMAGE_DIR == "uploaded_images"

\* ------------------------------------------------------ ingestion: CSV
\* An uploaded file: its header and its rows of text cells; no header at all
\* is an empty file.
EmptyFile == [columns |-> {}, rows |-> << >>]

\* pd.read_csv infers one type per column: int64, float64 (digits and blanks),
\* bool, or object (text, blanks read as NaN).
ConvertCell(cell, cells) ==
    LET texts == {c.s : c \in cells}
    IN  IF texts # {} /\ texts \subseteq DigitStrings THEN IntVal(cell.s)
        ELSE IF texts \subseteq DigitStrings \cup FloatStrings \cup {""}
        THEN IF cell.s = "" THEN NaN
             ELSE IF cell.s \in FloatStrings THEN FloatVal(DigitsOf(cell.s))
             ELSE FloatVal(cell.s)
        ELSE IF texts \subseteq {"True", "False", ""}
        THEN IF cell.s = "" THEN NaN ELSE BoolVal(cell.s = "True")
        ELSE IF cell.s = "" THEN NaN ELSE cell

read_csv(file) ==
    [columns |-> file.columns,
     rows |-> [i \in 1..Len(file.rows) |->
                 [c \in file.columns |->
                     ConvertCell(file.rows[i][c],
                                 {file.rows[j][c] : j \in 1..Len(file.rows)})]]]

IsDateText(v) == v.t = "str" /\ v.s \in {FmtMin, FmtSec}

\* errors="ignore": what does not parse is left as it is
to_datetime_Ignore(v) ==
    IF v.t = "ts" THEN v
    ELSE IF IsDateText(v) THEN Timestamp(v.n)
    ELSE v

\* pd.to_datetime(..., errors="coerce"): what does not parse becomes NaT
to_datetime_coerce(v) ==
    IF v.t = "ts" THEN v
    ELSE IF IsDateText(v) THEN Timestamp(v.n)
    ELSE NaT

\* a key that is not advanced
update_key_Same(key) == key

\* lines 44-45
update_key(key) == key + 1

\* a check that finds nothing missing
missing_columns_None(uploaded_df) == {}

\* line 68
missing_columns(uploaded_df) == required_columns \ uploaded_df.columns

\* rows without a timestamp left out
to_dict_DropUndated(uploaded_df) ==
    SelectSeq(uploaded_df.rows, LAMBDA row : ~IsNull(Field(row, "timestamp")))

\* line 73: to_dict(orient="records")
to_dict(uploaded_df) == uploaded_df.rows

\* the store replaced by the rows
extend_Replace(reps, rows) == rows

\* line 73: list.extend
extend(reps, rows) == reps \o rows

\* lines 64-77; uploaded_file is << >> (nothing uploaded) or <<file>>
CsvSection(reps, key, uploaded_file) ==
    IF uploaded_file = << >>
    THEN [reports |-> reps, key |-> key, message |-> "none", merged |-> 0]
    ELSE IF uploaded_file[1].columns = {}
    THEN [reports |-> reps, key |-> key,
          message |-> "Error processing uploaded CSV", merged |-> 0]
    ELSE LET uploaded_df == read_csv(uploaded_file[1])
         IN  IF missing_columns(uploaded_df) # {}
             THEN [reports |-> reps, key |-> key,
                   message |-> "Missing columns", merged |-> 0]
             ELSE IF "timestamp" \notin uploaded_df.columns
             THEN [reports |-> reps, key |-> key,
                   message |-> "Error processing uploaded CSV", merged |-> 0]
             ELSE LET coerced ==
                        [uploaded_df EXCEPT !.rows =
                            [i \in 1..Len(uploaded_df.rows) |->
                                [uploaded_df.rows[i] EXCEPT !["timestamp"] =
                                    to_datetime_coerce(@)]]]
                  IN  [reports |-> extend(reps, to_dict(coerced)),
                       key |-> update_key(key),
                       message |-> "CSV uploaded and merged successfully",
                       merged |-> 1]

\* ----------------------------------------------------- ingestion: form
\* ", ".join(concerns)
RECURSIVE JoinConcerns(_)
JoinConcerns(concerns) ==
    IF Len(concerns) = 0 THEN ""
    ELSE IF Len(concerns) = 1 THEN concerns[1]
    ELSE concerns[1] \o ", " \o JoinConcerns(Tail(concerns))

\* lines 93-98: the photo is saved under IMAGE_DIR, named after the time
PhotoPath(photo, t) ==
    IF photo = "" THEN None ELSE Val("str", IMAGE_DIR, t)

\* lines 100-111
MakeReport(form, t) ==
    [timestamp |-> TimeStr(FmtMin, t),
     address |-> StrVal(form.address),
     zipcode |-> StrVal(form.zipcode),
     description |-> StrVal(form.description),
     concerns |-> StrVal(JoinConcerns(form.concerns)),
     type |-> StrVal(form.source_type),
     used |-> StrVal(form.used),
     symptoms |-> StrVal(form.symptoms),
     alert |-> BoolVal(form.alert_others),
     photo_path |-> PhotoPath(form.photo, t)]

\* a submission without an address refused
FormSection_Validate(reps, submitted, form, t) ==
    IF submitted /\ form.address # "" THEN Append(reps, MakeReport(form, t))
    ELSE reps

\* lines 92-113
FormSection(reps, submitted, form, t) ==
    IF submitted THEN Append(reps, MakeReport(form, t)) ELSE reps

\* -------------------------------------------------------- gallery view
\* Series.astype(str)
astype_str(v) ==
    CASE v.t = "str" -> v.s
      [] v.t = "int" -> v.s
      [] v.t = "float" -> FloatText(v.s)
      [] v.t = "bool" -> v.s
      [] v.t = "nan" -> "nan"
      [] v.t = "none" -> "None"
      [] OTHER -> "NaT"

\* lines 117-120: the frame of the gallery, idx being the row's index label
GalleryFrame(reps) ==
    [i \in 1..Len(reps) |->
        [idx |-> i,
         zipcode |-> astype_str(Field(reps[i], "zipcode")),
         timestamp |-> to_datetime_coerce(Field(reps[i], "timestamp")),
         address |-> Field(reps[i], "address")]]

\* line 122: the zip codes offered by the filter, besides "All"
ZipOptions(reps) == {GalleryFrame(reps)[i].zipcode : i \in 1..Len(reps)}

\* numpy's argsort(kind="quicksort") on the keys v, a being the index array:
\* median-of-three partitioning of a range longer than SMALL_QUICKSORT + 1,
\* insertion sort of a shorter one.
SMALL_QUICKSORT == 16

Swap(a, i, j) == [a EXCEPT ![i] = a[j], ![j] = a[i]]

RECURSIVE InsertAt(_, _, _, _, _)
InsertAt(v, a, pl, pj, vi) ==
    IF pj > pl /\ v[vi] < v[a[pj - 1]]
    THEN InsertAt(v, [a EXCEPT ![pj] = a[pj - 1]], pl, pj - 1, vi)
    ELSE [a EXCEPT ![pj] = vi]

RECURSIVE InsertionSort(_, _, _, _, _)
InsertionSort(v, a, pl, pr, pi) ==
    IF pi > pr THEN a
    ELSE InsertionSort(v, InsertAt(v, a, pl, pi, a[pi]), pl, pr, pi + 1)

RECURSIVE ScanUp(_, _, _, _)
ScanUp(v, a, vp, pi) == IF v[a[pi]] < vp THEN ScanUp(v, a, vp, pi + 1) ELSE pi

RECURSIVE ScanDown(_, _, _, _)
ScanDown(v, a, vp, pj) == IF vp < v[a[pj]] THEN ScanDown(v, a, vp, pj - 1) ELSE pj

RECURSIVE Partition(_, _, _, _, _)
Partition(v, a, vp, pi, pj) ==
    LET ni == ScanUp(v, a, vp, pi + 1)
        nj == ScanDown(v, a, vp, pj - 1)
    IN  IF ni >= nj THEN [a |-> a, pi |-> ni]
        ELSE Partition(v, Swap(a, ni, nj), vp, ni, nj)

RECURSIVE aquicksort(_, _, _, _)
aquicksort(v, a, pl, pr) ==
    IF pr - pl > SMALL_QUICKSORT
    THEN LET pm == pl + ((pr - pl) \div 2)
             a1 == IF v[a[pm]] < v[a[pl]] THEN Swap(a, pm, pl) ELSE a
             a2 == IF v[a1[pr]] < v[a1[pm]] THEN Swap(a1, pr, pm) ELSE a1
             a3 == IF v[a2[pm]] < v[a2[pl]] THEN Swap(a2, pm, pl) ELSE a2
             vp == v[a3[pm]]
             a4 == Swap(a3, pm, pr - 1)
             part == Partition(v, a4, vp, pl, pr - 1)
             a5 == Swap(part.a, part.pi, pr - 1)
         IN  aquicksort(v, aquicksort(v, a5, pl, part.pi - 1), part.pi + 1, pr)
    ELSE InsertionSort(v, a, pl, pr, pl + 1)

argsort(v) == aquicksort(v, [i \in 1..Len(v) |-> i], 1, Len(v))

Reverse(s) == [i \in 1..Len(s) |-> s[Len(s) + 1 - i]]

\* pandas' nargsort: the rows without a timestamp go last, in their order; the
\* others are argsorted, for a descending sort reversed before and after.
nargsort(items, ascending) ==
    LET idx == [i \in 1..Len(items) |-> i]
        non_nan_idx0 == SelectSeq(idx, LAMBDA i : ~IsNull(items[i]))
        nan_idx == SelectSeq(idx, LAMBDA i : IsNull(items[i]))
        non_nan_idx == IF ascending THEN non_nan_idx0 ELSE Reverse(non_nan_idx0)
        non_nans == [k \in 1..Len(non_nan_idx) |-> items[non_nan_idx[k]].n]
        order == argsort(non_nans)
        indexer0 == [k \in 1..Len(order) |-> non_nan_idx[order[k]]]
        indexer == IF ascending THEN indexer0 ELSE Reverse(indexer0)
    IN  indexer \o nan_idx

\* line 127
sort_values(df, ascending) ==
    LET indexer == nargsort([i \in 1..Len(df) |-> df[i].timestamp], ascending)
    IN  [k \in 1..Len(df) |-> df[indexer[k]]]

\* lines 117-130: the reports the gallery renders, in order
GalleryTab(reps, zip, sort) ==
    IF reps = << >> THEN << >>
    ELSE LET df == GalleryFrame(reps)
             filtered == IF zip # "All"
                         THEN SelectSeq(df, LAMBDA row : row.zipcode = zip)
                         ELSE df
         IN  sort_values(filtered, sort = "Oldest First")

\* -------------------------------------------------------- tabular view
\* DataFrame.to_csv renders each value as text, a null as an empty cell
to_csv_cell(v) ==
    CASE v.t = "str" -> v
      [] v.t = "int" -> StrVal(v.s)
      [] v.t = "float" -> StrVal(FloatText(v.s))
      [] v.t = "bool" -> StrVal(v.s)
      [] v.t = "ts" -> TimeStr(FmtSec, v.n)
      [] OTHER -> StrVal("")

\* lines 160-163: the file behind the download button
TableTab(reps) ==
    LET columns == UNION {DOMAIN reps[i] : i \in 1..Len(reps)} \ {"photo_path"}
    IN  [columns |-> columns,
         rows |-> [i \in 1..Len(reps) |->
                     [c \in columns |-> to_csv_cell(Field(reps[i], c))]]]

\* ----------------------------------------------------------- trend view
\* line 169: pd.to_datetime without errors="coerce" raises on other text
to_datetime_raises(reps) ==
    \E i \in 1..Len(reps) :
        LET v == Field(reps[i], "timestamp")
        IN  v.t \in {"str", "bool"} /\ ~IsDateText(v)

\* line 170: dt.to_period("W").astype(str); "NaT" for a missing timestamp
WeekOf(v) ==
    LET ts == to_datetime_coerce(v)
    IN  IF IsNull(ts) THEN [nat |-> TRUE, w |-> 0]
        ELSE [nat |-> FALSE, w |-> ts.n \div MinutesPerWeek]

\* The key a zip code value is grouped under: Python equality, so the int
\* 10001 and the float 10001.0 are one key and the text "10001" is another.
GroupKey(z) ==
    IF z.t \in {"int", "float"} THEN [num |-> TRUE, s |-> z.s]
    ELSE [num |-> FALSE, s |-> z.s]

\* the order of the text zip codes of the model, and the value of the numbers
ZipStrings == <<"", "10001", "94110", "N1 9GU">>
StrRank(s) == CHOOSE i \in 1..Len(ZipStrings) : ZipStrings[i] = s
NumValue(s) == IF s = "10001" THEN 10001 ELSE 94110

\* groupby sorts the keys: numbers before text; week labels as text, "NaT" last
KeyBefore(a, b) ==
    IF a.num # b.num THEN a.num
    ELSE IF a.num THEN NumValue(a.s) < NumValue(b.s)
    ELSE StrRank(a.s) < StrRank(b.s)

WeekBefore(a, b) ==
    IF a.nat # b.nat THEN b.nat ELSE (~a.nat /\ a.w < b.w)

GroupBefore(g, h) ==
    \/ KeyBefore(g[1], h[1])
    \/ g[1] = h[1] /\ WeekBefore(g[2], h[2])

RECURSIVE SortGroups(_)
SortGroups(S) ==
    IF S = {} THEN << >>
    ELSE LET g == CHOOSE x \in S : \A y \in S \ {x} : GroupBefore(x, y)
         IN  <<g>> \o SortGroups(S \ {g})

\* line 171: groupby(['zipcode', 'week']).size(); a row whose zip code is
\* null is dropped (dropna=True)
groupby_size(reps) ==
    LET kept == {i \in 1..Len(reps) : ~IsNull(Field(reps[i], "zipcode"))}
        group(i) == <<GroupKey(Field(reps[i], "zipcode")),
                      WeekOf(Field(reps[i], "timestamp"))>>
        groups == SortGroups({group(i) : i \in kept})
    IN  [k \in 1..Len(groups) |->
            [zipcode |-> groups[k][1],
             week |-> groups[k][2],
             report_count |-> Cardinality({i \in kept : group(i) = groups[k]})]]

\* lines 167-171 and 193-197; the script stops when to_datetime raises
TrendData(reps) ==
    IF reps = << >> \/ to_datetime_raises(reps) THEN << >>
    ELSE groupby_size(reps)

\* lines 172, 198: trend_data['zipcode'].unique()
UniqueZips(td) == {td[k].zipcode : k \in 1..Len(td)}

\* ---------------------------------------------------------- AI analysis
\* the selection of a selectbox that has no option
NoZip == [num |-> FALSE, s |-> "None"]

\* the first n instead of the last n
tail_Head(s, n) == IF Len(s) <= n THEN s ELSE SubSeq(s, 1, n)

\* DataFrame.tail
tail(s, n) == IF Len(s) <= n THEN s ELSE SubSeq(s, Len(s) - n + 1, Len(s))

\* line 200
weekly_summary(td, zip) ==
    tail(SelectSeq(td, LAMBDA row : row.zipcode = zip), TailLen)

\* lines 206-218: one call; api_ok is whether the collaborator answers
create_completion(request, api_ok) ==
    [requests |-> <<request>>,
     message |-> IF api_ok THEN "response" ELSE "AI analysis failed"]

\* lines 191-220
AiTab(reps, pressed, zip, api_ok) ==
    IF reps = << >> \/ to_datetime_raises(reps) \/ ~pressed
    THEN [requests |-> << >>, message |-> "none"]
    ELSE create_completion(
             [zipcode |-> zip, data |-> weekly_summary(TrendData(reps), zip)],
             api_ok)

\* ---------------------------------------------------------------- inputs
\* what the user types into the form (lines 81-89); photo "" is no photo
EmptyForm ==
    [address |-> "", zipcode |-> "", description |-> "", concerns |-> << >>,
     source_type |-> "Faucet", used |-> "Yes", symptoms |-> "",
     alert_others |-> FALSE, photo |-> ""]

FullForm ==
    [address |-> "12 Elm St", zipcode |-> "10001",
     description |-> "brown water", concerns |-> <<"Foam", "Bugs">>,
     source_type |-> "Pipe Leak", used |-> "No", symptoms |-> "rash",
     alert_others |-> TRUE, photo |-> "tap.png"]

FormInputs == {EmptyForm, FullForm}

\* the zip codes the user picks in the gallery's filter
FilterChoices == {"All", "10001"}

\* rows of text cells of an uploaded CSV
CsvRow(ts, zip) ==
    [timestamp |-> ts, address |-> StrVal("5 Oak Ave"), zipcode |-> StrVal(zip),
     description |-> StrVal("cloudy"), concerns |-> StrVal("Foam"),
     type |-> StrVal("Faucet"), used |-> StrVal("No"), symptoms |-> StrVal(""),
     alert |-> StrVal("False"), photo_path |-> StrVal("")]

RowDated == CsvRow(TimeStr(FmtMin, 1), "10001")
RowUndated == CsvRow(StrVal("not a date"), "N1 9GU")
RowNoZip == CsvRow(TimeStr(FmtSec, MinutesPerWeek), "")

CsvRows == {RowDated, RowUndated, RowNoZip}

RowSeqs == UNION {[1..n -> CsvRows] : n \in 1..MaxRows}

GoodFiles == {[columns |-> required_columns, rows |-> rs] : rs \in RowSeqs}

Restrict(row, columns) == [c \in columns |-> row[c]]

\* headers that lack one of the required columns, or two of them
BadHeaders ==
    {required_columns \ {"photo_path"}, required_columns \ {"timestamp"},
     required_columns \ {"zipcode", "alert"}}

BadFiles ==
    {[columns |-> h, rows |-> <<Restrict(RowDated, h)>>] : h \in BadHeaders}

Files == GoodFiles \cup BadFiles \cup {EmptyFile}

\* the files and form inputs of the specification with every interaction
SomeFiles ==
    {[columns |-> required_columns, rows |-> <<RowDated>>],
     [columns |-> required_columns, rows |-> <<RowNoZip>>],
     [columns |-> required_columns \ {"photo_path"},
      rows |-> <<Restrict(RowDated, required_columns \ {"photo_path"})>>]}

SomeForms == {FullForm}

\* ----------------------------------------------------------------- state
VARIABLES
    reports,        \* st.session_state.reports
    uploader_key,   \* st.session_state.uploader_key
    widget_key,     \* the key of the CSV uploader that holds a value
    widget_file,    \* what it holds: << >> or <<file>>
    now,            \* datetime.now(), in minutes
    selected_zip,   \* the gallery's zip code filter
    sort_option,    \* the gallery's sort order
    csv_message,    \* what the CSV section showed in the last run
    requests,       \* the requests sent to the collaborator in the last run
    ai_message,     \* what the AI section showed in the last run
    submit_log,     \* history: the form inputs submitted, with their times
    origin,         \* history: how each report came in, "form" or "csv"
    merges          \* history: how often the current upload has been merged

vars ==
    <<reports, uploader_key, widget_key, widget_file, now, selected_zip,
      sort_option, csv_message, requests, ai_message, submit_log, origin,
      merges>>

\* Every interaction ends with a complete run of the script, so what the
\* gallery and the trend tab show is what the script computes from the state.
gallery_out == GalleryTab(reports, selected_zip, sort_option)
trend_data == TrendData(reports)

\* lines 39-42, and the first run of the script on an empty session
Init ==
    /\ reports = << >>
    /\ uploader_key = 0
    /\ widget_key = 0
    /\ widget_file = << >>
    /\ now = 0
    /\ selected_zip = "All"
    /\ sort_option = "Newest First"
    /\ csv_message = "none"
    /\ requests = << >>
    /\ ai_message = "none"
    /\ submit_log = << >>
    /\ origin = << >>
    /\ merges = 0

\* One run of the script, top to bottom (lines 55-220).  wkey and wfile are
\* the uploader's state as the user left it; the uploader rendered in this run
\* is the one whose key is uploader_key (line 61).  A widget that is no longer
\* rendered loses its state.
ScriptRun(wkey, wfile, how, form, zip, sort, aizip, api_ok) ==
    LET uploaded_file == IF wkey = uploader_key THEN wfile ELSE << >>
        csv == CsvSection(reports, uploader_key, uploaded_file)
        reps == FormSection(csv.reports, how = "submit", form, now)
        ai == AiTab(reps, how = "analyze", aizip, api_ok)
    IN  /\ reports' = reps
        /\ uploader_key' = csv.key
        /\ widget_key' = csv.key
        /\ widget_file' = IF wkey = csv.key THEN wfile ELSE << >>
        /\ csv_message' = csv.message
        /\ selected_zip' = zip
        /\ sort_option' = sort
        /\ requests' = ai.requests
        /\ ai_message' = ai.message
        /\ submit_log' = IF how = "submit"
                         THEN Append(submit_log, [form |-> form, at |-> now])
                         ELSE submit_log
        /\ origin' = origin
                     \o [i \in 1..(Len(csv.reports) - Len(reports)) |-> "csv"]
                     \o (IF how = "submit" THEN <<"form">> ELSE << >>)
        /\ merges' = (IF how = "upload" THEN 0 ELSE merges) + csv.merged
        /\ now' = now

\* ------------------------------------------------------------ interactions
\* the user drops a CSV file on the uploader (line 58)
Upload(f) ==
    /\ Len(reports) + Len(f.rows) <= MaxReports
    /\ ScriptRun(uploader_key, <<f>>, "upload", EmptyForm, selected_zip,
                 sort_option, NoZip, TRUE)

\* the user downloads the table (line 163) and drops that file on the uploader
UploadExport ==
    /\ ScriptRun(uploader_key, <<TableTab(reports)>>, "upload", EmptyForm,
                 selected_zip, sort_option, NoZip, TRUE)

\* the user removes the file from the uploader
ClearUploader ==
    /\ widget_file # << >>
    /\ ScriptRun(uploader_key, << >>, "upload", EmptyForm, selected_zip,
                 sort_option, NoZip, TRUE)

\* the user fills in the form and presses Submit Report (line 90)
Submit(form) ==
    /\ Len(reports) < MaxReports
    /\ ScriptRun(widget_key, widget_file, "submit", form, selected_zip,
                 sort_option, NoZip, TRUE)

\* the user changes the gallery's filter or sort order (lines 122, 126)
SetGallery(zip, sort) ==
    /\ reports # << >>
    /\ zip \in {"All"} \cup ZipOptions(reports)
    /\ <<zip, sort>> # <<selected_zip, sort_option>>
    /\ ScriptRun(widget_key, widget_file, "gallery", EmptyForm, zip, sort,
                 NoZip, TRUE)

\* the zip codes the AI tab's selectbox offers (line 198)
AiOptions == IF trend_data = << >> THEN {NoZip} ELSE UniqueZips(trend_data)

\* the user picks a zip code and presses Analyze (lines 198-199)
Analyze(zip, api_ok) ==
    /\ reports # << >>
    /\ ~to_datetime_raises(reports)
    /\ zip \in AiOptions
    /\ ScriptRun(widget_key, widget_file, "analyze", EmptyForm, selected_zip,
                 sort_option, zip, api_ok)

\* time passes: a minute or a week; MaxTicks bounds how far the clock runs
Tick(d) ==
    /\ ((now + d) \div MinutesPerWeek) + ((now + d) % MinutesPerWeek) <= MaxTicks
    /\ now' = now + d
    /\ UNCHANGED <<reports, uploader_key, widget_key, widget_file,
                   selected_zip, sort_option, csv_message, requests,
                   ai_message, submit_log, origin, merges>>

\* ---------------------------------------------------------- specifications
\* Ingestion, with every file and every form input of the model; the clock
\* advances by minutes.
NextIngest ==
    \/ \E f \in Files : Upload(f)
    \/ UploadExport
    \/ ClearUploader
    \/ \E form \in FormInputs : Submit(form)
    \/ Tick(1)

SpecIngest == Init /\ [][NextIngest]_vars

\* Every interaction, with a few files and one form input; the clock advances
\* by weeks.
Next ==
    \/ \E f \in SomeFiles : Upload(f)
    \/ ClearUploader
    \/ \E form \in SomeForms : Submit(form)
    \/ \E zip \in FilterChoices,
          sort \in {"Newest First", "Oldest First"} : SetGallery(zip, sort)
    \/ \E zip \in AiOptions, api_ok \in BOOLEAN : Analyze(zip, api_ok)
    \/ Tick(MinutesPerWeek)

Spec == Init /\ [][Next]_vars

\* The views over a store of up to MaxBig reports: submitted one after the
\* other, step minutes apart, every second one with the empty form if alt; or
\* read from one CSV whose rows have no zip code.
SubmittedStore(n, step, alt) ==
    [i \in 1..n |->
        MakeReport(IF alt /\ i % 2 = 0 THEN EmptyForm ELSE FullForm,
                   (i - 1) * step)]

SubmittedLog(n, step, alt) ==
    [i \in 1..n |->
        [form |-> IF alt /\ i % 2 = 0 THEN EmptyForm ELSE FullForm,
         at |-> (i - 1) * step]]

NoZipFile(n) ==
    [columns |-> required_columns, rows |-> [i \in 1..n |-> RowNoZip]]

InitBig ==
    /\ \E n \in 0..MaxBig :
          \/ \E step \in {0, 1, MinutesPerWeek}, alt \in BOOLEAN :
                /\ reports = SubmittedStore(n, step, alt)
                /\ submit_log = SubmittedLog(n, step, alt)
                /\ origin = [i \in 1..n |-> "form"]
                /\ now = IF n = 0 THEN 0 ELSE (n - 1) * step
                /\ uploader_key = 0
          \/ /\ n > 0
             /\ reports = CsvSection(<< >>, 0, <<NoZipFile(n)>>).reports
             /\ submit_log = << >>
             /\ origin = [i \in 1..n |-> "csv"]
             /\ now = 0
             /\ uploader_key = 1
    /\ widget_key = uploader_key
    /\ widget_file = << >>
    /\ selected_zip = "All"
    /\ sort_option = "Newest First"
    /\ csv_message = "none"
    /\ requests = << >>
    /\ ai_message = "none"
    /\ merges = 0

NextBig ==
    \/ \E zip \in FilterChoices,
          sort \in {"Newest First", "Oldest First"} : SetGallery(zip, sort)
    \/ \E zip \in AiOptions, api_ok \in BOOLEAN : Analyze(zip, api_ok)

SpecBig == InitBig /\ [][NextBig]_vars

\* ------------------------------------------------------------ properties
IsPrefix(s, t) == Len(s) <= Len(t) /\ SubSeq(t, 1, Len(s)) = s

AllFromForm == \A i \in 1..Len(origin) : origin[i] = "form"

HasAllColumns(f) == required_columns \subseteq f.columns

\* C1: as long as every report came in through the form, the store holds one
\* record per submission, in the order of the submissions, each with the
\* text the user typed (empty text included) and the time of its submission.
C1_SubmitOrder ==
    AllFromForm =>
        /\ Len(reports) = Len(submit_log)
        /\ \A i \in 1..Len(submit_log) :
              LET r == reports[i]
                  f == submit_log[i].form
              IN  /\ r.timestamp = TimeStr(FmtMin, submit_log[i].at)
                  /\ r.address = StrVal(f.address)
                  /\ r.zipcode = StrVal(f.zipcode)
                  /\ r.description = StrVal(f.description)
                  /\ r.concerns = StrVal(JoinConcerns(f.concerns))
                  /\ r.type = StrVal(f.source_type)
                  /\ r.used = StrVal(f.used)
                  /\ r.symptoms = StrVal(f.symptoms)
                  /\ r.alert = BoolVal(f.alert_others)

\* two or more submissions, the empty form first, and no import
C1_Witness ==
    /\ AllFromForm
    /\ Len(submit_log) >= 2
    /\ submit_log[1].form = EmptyForm
    /\ submit_log[2].form = FullForm
    /\ reports[1].zipcode = StrVal("")

\* C2: uploading a file whose header has the ten required columns and that
\* has N rows appends N records after the ones already stored, in row order;
\* a row whose timestamp does not parse comes in with a null timestamp.
C2_ImportAppends ==
    [][\A f \in Files :
          (HasAllColumns(f) /\ Upload(f)) =>
              /\ Len(reports') = Len(reports) + Len(f.rows)
              /\ IsPrefix(reports, reports')
              /\ csv_message' = "CSV uploaded and merged successfully"
              /\ \A i \in 1..Len(f.rows) :
                    LET r == reports'[Len(reports) + i]
                        cell == f.rows[i]
                    IN  /\ r.address = cell.address
                        /\ r.description = cell.description
                        /\ cell.zipcode.s = "" => r.zipcode = NaN
                        /\ cell.zipcode.s # "" => r.zipcode.s = cell.zipcode.s
                        /\ IsDateText(cell.timestamp) =>
                              r.timestamp = Timestamp(cell.timestamp.n)
                        /\ ~IsDateText(cell.timestamp) => r.timestamp = NaT]_vars

\* a two-row import behind a submitted report, its second row undated
C2_Witness ==
    /\ origin = <<"form", "csv", "csv">>
    /\ csv_message = "CSV uploaded and merged successfully"
    /\ reports[2].timestamp = Timestamp(1)
    /\ reports[3].timestamp = NaT

\* C3: uploading a file whose header lacks required columns shows the
\* missing-columns error and leaves the store as it was; while the file
\* stays in the uploader every later run shows the error again and takes no
\* row from it.
C3_SchemaError ==
    [][/\ \A f \in Files :
             (~HasAllColumns(f) /\ f.columns # {} /\ Upload(f)) =>
                 (csv_message' = "Missing columns" /\ reports' = reports)
       /\ (widget_file' # << >> /\ widget_file'[1].columns # {}
             /\ ~HasAllColumns(widget_file'[1])) =>
                 /\ csv_message' = "Missing columns"
                 /\ \A i \in (Len(origin) + 1)..Len(origin') :
                       origin'[i] = "form"]_vars

\* a file without photo_path or timestamp was refused, the store not empty
C3_Witness ==
    /\ csv_message = "Missing columns"
    /\ reports # << >>
    /\ widget_file # << >>
    /\ Cardinality(required_columns \ widget_file[1].columns) = 2

\* C4: downloading the table of a store with reports and uploading that file
\* succeeds and appends records equal to the stored ones in every field but
\* photo_path.
C4_RoundTrip ==
    [][(reports # << >> /\ UploadExport) =>
          /\ csv_message' = "CSV uploaded and merged successfully"
          /\ Len(reports') = 2 * Len(reports)
          /\ \A i \in 1..Len(reports) :
                \A c \in required_columns \ {"photo_path"} :
                    to_csv_cell(Field(reports'[Len(reports) + i], c))
                        = to_csv_cell(Field(reports[i], c))]_vars

C6_GalleryFilterSort ==
    LET out == gallery_out
    IN  /\ selected_zip # "All" =>
              /\ {out[k].idx : k \in 1..Len(out)}
                    = {i \in 1..Len(reports) :
                          astype_str(Field(reports[i], "zipcode")) = selected_zip}
              /\ \A j, k \in 1..Len(out) : j # k => out[j].idx # out[k].idx
        /\ sort_option = "Oldest First" =>
              \A j, k \in 1..Len(out) :
                  (j < k /\ ~IsNull(out[j].timestamp) /\ ~IsNull(out[k].timestamp)) =>
                      /\ out[j].timestamp.n <= out[k].timestamp.n
                      /\ out[j].timestamp.n = out[k].timestamp.n =>
                            out[j].idx < out[k].idx

\* the zip code of a report as text, a number read from a file like the
\* digits typed into the form
CanonText(v) == IF IsNull(v) THEN "nan" ELSE v.s

RECURSIVE SumCounts(_, _)
SumCounts(td, k) == IF k = 0 THEN 0 ELSE td[k].report_count + SumCounts(td, k - 1)

\* C7, for a store in which every report has a zip code: the trend table has
\* one entry for each (zip code as text, week) that occurs among the stored
\* reports and no other, its count is the number of those reports, and the
\* counts add up to the number of stored reports.
C7_TrendBuckets ==
    (\A i \in 1..Len(reports) : ~IsNull(Field(reports[i], "zipcode"))) =>
    LET pair(i) == <<CanonText(Field(reports[i], "zipcode")),
                     WeekOf(Field(reports[i], "timestamp"))>>
        entry(k) == <<trend_data[k].zipcode.s, trend_data[k].week>>
        rows == 1..Len(reports)
        entries == 1..Len(trend_data)
    IN  /\ {entry(k) : k \in entries} = {pair(i) : i \in rows}
        /\ \A j, k \in entries : j # k => entry(j) # entry(k)
        /\ \A k \in entries :
              trend_data[k].report_count
                  = Cardinality({i \in rows : pair(i) = entry(k)})
        /\ SumCounts(trend_data, Len(trend_data)) = Len(reports)

Range(s) == {s[i] : i \in 1..Len(s)}

C9_AppendOnly ==
    [][/\ IsPrefix(reports, reports')
       /\ reports' # reports =>
             \/ \E form \in SomeForms : Submit(form)
             \/ \E f \in SomeFiles :
                   Upload(f) /\ csv_message' = "CSV uploaded and merged successfully"]_vars

\* a store filled by both paths, the gallery filtered, an analysis failed
C9_Witness ==
    /\ Len(reports) >= 2
    /\ "csv" \in Range(origin)
    /\ "form" \in Range(origin)
    /\ selected_zip # "All"
    /\ ai_message = "AI analysis failed"

\* C10: the rows of an uploaded file are merged at most once, and after the
\* run that merged them the uploader is empty.
C10_MergedOnce ==
    /\ merges <= 1
    /\ csv_message = "CSV uploaded and merged successfully" =>
          (merges = 1 /\ widget_file = << >>)

\* a run caused by Analyze after a file was merged: it was not merged again
C10_Witness ==
    /\ merges = 1
    /\ csv_message = "none"
    /\ requests # << >>
    /\ "csv" \in Range(origin)

====
